---- MODULE Spec2Model ----
(***************************************************************************)
(* Project Monitoring Dashboard (src/streamlit_new.py).                    *)
(*                                                                         *)
(* A table (pandas DataFrame) is a record                                  *)
(*   [some, columns, dtypes, index, data]                                  *)
(* columns: the column names in order; index: the row labels (a loaded     *)
(* table has the labels 0..n-1, and boolean indexing keeps the labels of   *)
(* the rows it keeps); data: the rows, each a function column -> cell.     *)
(* Cells are small integers; NaN is the missing cell; None is Python's     *)
(* None (a select box with nothing selected, a table that was not loaded). *)
(***************************************************************************)
EXTENDS Integers, Sequences, FiniteSets, TLC

VARIABLES
    \* one run of main()
    pc, uploaded_file, df, error,
    week_options, week_selected,
    account_options, account_selected,
    client_options, client_selected,
    project_options, project_selected,
    submit, filtered_data, output,
    default_filters,
    \* direct calls of the functions
    fn_df, fn_default, fn_call, fn_ret

mainVars == <<pc, uploaded_file, df, error, week_options, week_selected,
              account_options, account_selected, client_options, client_selected,
              project_options, project_selected, submit, filtered_data, output,
              default_filters>>
fnVars == <<fn_df, fn_default, fn_call, fn_ret>>
vars == <<mainVars, fnVars>>

----------------------------------------------------------------------------
\* Values

NaN == -1
None == -2

\* Python truthiness of a selected value: None, 0 and 0.0 are falsy.
Truthy(val) == val # None /\ val # 0

\* pandas elementwise ==: a missing cell equals nothing, nor does None.
CellEq(cell, val) == cell # NaN /\ val # NaN /\ val # None /\ cell = val

Range(s) == {s[i] : i \in 1..Len(s)}

AllColumns == <<"Week", "Account Name", "Client Name", "Project Name", "Project Status">>

status_colors == <<"#4CAF50", "#FFC107", "#FF9800", "#8B0000", "#FF0000">>

NoneDf == [some |-> FALSE, columns |-> <<>>, dtypes |-> <<>>, index |-> <<>>, data |-> <<>>]

----------------------------------------------------------------------------
\* DataFrame helpers

\* the elements of s at the positions in keep, in order
RECURSIVE Take(_, _, _)
Take(s, keep, i) ==
    IF i > Len(s) THEN <<>>
    ELSE (IF i \in keep THEN <<s[i]>> ELSE <<>>) \o Take(s, keep, i + 1)

\* filtered_df[filtered_df[col] == val]: the rows whose cell equals val,
\* with their index labels
BooleanIndex(d, col, val) ==
    LET keep == {i \in 1..Len(d.data) : CellEq(d.data[i][col], val)}
    IN  [d EXCEPT !.index = Take(d.index, keep, 1), !.data = Take(d.data, keep, 1)]

EmptyColumnsOnly(d) == Len(d.columns) = 0

\* df.empty: some axis has length 0
Empty(d) == Len(d.data) = 0 \/ Len(d.columns) = 0

ColumnValues(d, column_name) == [i \in 1..Len(d.data) |-> d.data[i][column_name]]

RECURSIVE Unique(_)
Unique(s) ==
    IF s = <<>> THEN <<>>
    ELSE LET front == Unique(SubSeq(s, 1, Len(s) - 1))
             last == s[Len(s)]
         IN  IF last \in Range(front) THEN front ELSE Append(front, last)

RECURSIVE Insert(_, _)
Insert(v, s) ==
    IF s = <<>> THEN <<v>>
    ELSE IF v < s[1] THEN <<v>> \o s
    ELSE <<s[1]>> \o Insert(v, Tail(s))

\* sorted(list): ascending, stable
RECURSIVE Sorted(_)
Sorted(s) == IF s = <<>> THEN <<>> ELSE Insert(s[Len(s)], Sorted(SubSeq(s, 1, Len(s) - 1)))

----------------------------------------------------------------------------
\* load_data

\* A column name as the file spells it: text between lead and trail blanks.
\* str.strip() drops the blanks.
Strip(raw) == raw.text

EndsWithXlsx(name) == name \in {"data.xlsx"}

\* pd.read_excel / pd.read_csv raise on a body of the other format or on garbage
ParseRaises(file) ==
    IF EndsWithXlsx(file.name) THEN file.format # "xlsx" ELSE file.format # "csv"

ColumnDtype(file, j) ==
    IF Len(file.cells) = 0 THEN "object"
    ELSE IF \E i \in 1..Len(file.cells) : file.cells[i][j] = NaN THEN "float64"
    ELSE "int64"

ParsedFrame(file) ==
    LET columns == [j \in 1..Len(file.header) |-> Strip(file.header[j])]
    IN  [some |-> TRUE,
         columns |-> columns,
         dtypes |-> [j \in 1..Len(file.header) |-> ColumnDtype(file, j)],
         index |-> [i \in 1..Len(file.cells) |-> i - 1],
         data |-> [i \in 1..Len(file.cells) |->
                     [c \in Range(columns) |->
                        file.cells[i][CHOOSE j \in 1..Len(columns) : columns[j] = c]]]]

LoadDataKeepsPartial(file) ==
    IF file.some
    THEN IF ParseRaises(file)
         THEN [df |-> [ParsedFrame(file) EXCEPT !.index = <<>>, !.data = <<>>],
               error |-> "Error loading file"]
         ELSE [df |-> ParsedFrame(file), error |-> ""]
    ELSE [df |-> NoneDf, error |-> ""]

LoadData(file) ==
    IF file.some
    THEN IF ParseRaises(file)
         THEN [df |-> NoneDf, error |-> "Error loading file"]
         ELSE [df |-> ParsedFrame(file), error |-> ""]
    ELSE [df |-> NoneDf, error |-> ""]

----------------------------------------------------------------------------
\* get_filtered_values(df, column_name, filters): [err, ret, df, filters] is
\* whether it raised, the list it returns, and the table and the mapping it
\* was given as they are when it returns.  filters is the mapping's items in
\* insertion order.

ConstraintAppliesUnguarded(d, col, val) == Truthy(val)

ConstraintApplies(d, col, val) == Truthy(val) /\ col \in Range(d.columns)

LoopStepOnOriginal(d, filtered_df, col, val) == BooleanIndex(d, col, val)

LoopStep(d, filtered_df, col, val) == BooleanIndex(filtered_df, col, val)

RECURSIVE FilterLoop(_, _, _, _)
FilterLoop(d, filtered_df, filters, k) ==
    IF k > Len(filters) THEN [err |-> FALSE, df |-> filtered_df]
    ELSE IF ConstraintApplies(d, filters[k].col, filters[k].val)
         THEN IF filters[k].col \in Range(filtered_df.columns)
              THEN FilterLoop(d, LoopStep(d, filtered_df, filters[k].col, filters[k].val),
                              filters, k + 1)
              ELSE [err |-> TRUE, df |-> filtered_df]
         ELSE FilterLoop(d, filtered_df, filters, k + 1)

DropNaKeepsMissing(s) == s

DropNa(s) == SelectSeq(s, LAMBDA v : v # NaN)

FiltersAfterCallRemembers(d, column_name, filters) ==
    Append(filters, [col |-> column_name, val |-> None])

\* the loop reads filters.items() and assigns to the local filtered_df only
FiltersAfterCall(d, column_name, filters) == filters

GetFilteredValues(d, column_name, filters) ==
    IF column_name \in Range(d.columns)
    THEN LET loop == FilterLoop(d, d, filters, 1)
         IN  [err |-> loop.err,
              ret |-> IF loop.err THEN <<>>
                      ELSE Sorted(Unique(DropNa(ColumnValues(loop.df, column_name)))),
              df |-> d,
              filters |-> FiltersAfterCall(d, column_name, filters)]
    ELSE [err |-> FALSE, ret |-> <<>>, df |-> d, filters |-> filters]

----------------------------------------------------------------------------
\* the row filter of main(), lines 95-103: [err, df] is whether it raised
\* (KeyError: the column is not in the table) and the filtered table

RowFilterStep(r, col, selected) ==
    IF r.err \/ ~Truthy(selected) THEN r
    ELSE IF col \in Range(r.df.columns)
         THEN [err |-> FALSE, df |-> BooleanIndex(r.df, col, selected)]
         ELSE [err |-> TRUE, df |-> r.df]

RowFilter(d, week, account, client, project) ==
    RowFilterStep(
        RowFilterStep(
            RowFilterStep(
                RowFilterStep([err |-> FALSE, df |-> d], "Week", week),
                "Account Name", account),
            "Client Name", client),
        "Project Name", project)

----------------------------------------------------------------------------
\* generate_styled_table_html: the markup as the sequence of its elements,
\* [tag, bg, text]; bg is the background-color of the element's style

ApplyStatusBackground(index) == status_colors[(index % Len(status_colors)) + 1]

\* iterrows() yields each row as one Series: with a float64 column in the
\* table every number of the row is a float
RowIsFloat(d) == \E j \in 1..Len(d.dtypes) : d.dtypes[j] = "float64"

Format(v, float) ==
    IF v = NaN THEN "nan"
    ELSE IF float THEN ToString(v) \o ".0"
    ELSE ToString(v)

Tag(tag) == [tag |-> tag, bg |-> "", text |-> ""]

HeaderCells(d) ==
    [j \in 1..Len(d.columns) |-> [tag |-> "th", bg |-> "", text |-> d.columns[j]]]

RowCells(d, i) ==
    [j \in 1..Len(d.columns) |->
        IF d.columns[j] = "Project Status"
        THEN [tag |-> "td", bg |-> ApplyStatusBackground(d.index[i]),
              text |-> Format(d.data[i][d.columns[j]], RowIsFloat(d))]
        ELSE [tag |-> "td", bg |-> "",
              text |-> Format(d.data[i][d.columns[j]], RowIsFloat(d))]]

RECURSIVE DataRows(_, _)
DataRows(d, i) ==
    IF i > Len(d.data) THEN <<>>
    ELSE <<Tag("tr")>> \o RowCells(d, i) \o <<Tag("/tr")>> \o DataRows(d, i + 1)

NoDataMessage == <<[tag |-> "p", bg |-> "", text |-> "No data available."]>>

GenerateStyledTableHtml(d) ==
    IF Empty(d) THEN NoDataMessage
    ELSE <<Tag("table")>>
         \o <<[tag |-> "tr", bg |-> "#f2f2f2", text |-> ""]>> \o HeaderCells(d) \o <<Tag("/tr")>>
         \o DataRows(d, 1)
         \o <<Tag("/table")>>

----------------------------------------------------------------------------
\* Uploaded files

MaxRows == 2
TallRows == 4
LongRows == 6

NoFile == [some |-> FALSE, name |-> "", format |-> "", header |-> <<>>, cells |-> <<>>]

\* the cells a column of a full sheet holds
CellDomain ==
    [j \in 1..Len(AllColumns) |->
        CASE AllColumns[j] = "Week" -> {0, 1}
          [] AllColumns[j] = "Account Name" -> {NaN, 1}
          [] AllColumns[j] = "Client Name" -> {1, 2}
          [] AllColumns[j] = "Project Name" -> {1, 2}
          [] OTHER -> {1}]

FullRows == {r \in [1..Len(AllColumns) -> {NaN, 0, 1, 2}] :
                \A j \in 1..Len(AllColumns) : r[j] \in CellDomain[j]}

SeqsUpTo(S, n) == UNION {[1..k -> S] : k \in 0..n}

Header(columns, blanks) ==
    [j \in 1..Len(columns) |-> [lead |-> blanks, text |-> columns[j], trail |-> blanks]]

Sheet(name, format, header, cells) ==
    [some |-> TRUE, name |-> name, format |-> format, header |-> header, cells |-> cells]

\* sheets with every column
FullSheets ==
    {Sheet("data.csv", "csv", Header(AllColumns, 0), cells) :
        cells \in SeqsUpTo(FullRows, MaxRows)}

\* sheets without the Client Name and Project Name columns, any cell in each
NarrowColumns == <<"Week", "Project Status">>

NarrowSheets ==
    {Sheet("data.xlsx", "xlsx", Header(NarrowColumns, 1), cells) :
        cells \in SeqsUpTo([1..2 -> {NaN, 0, 1}], MaxRows)}

\* sheets of the Week column alone
WeekSheets ==
    {Sheet("data.csv", "csv", Header(<<"Week">>, 0), cells) :
        cells \in SeqsUpTo([1..1 -> {NaN, 0, 1, 2}], TallRows)}

\* long sheets: the Week decides which rows a filter keeps
LongSheets ==
    {Sheet("data.csv", "csv", Header(NarrowColumns, 0), cells) :
        cells \in [1..LongRows -> {<<1, 1>>, <<2, 1>>}]}

\* a body the parser chosen by the name does not read
BadSheets ==
    {Sheet("data.xlsx", "csv", Header(AllColumns, 0), <<>>),
     Sheet("data.csv", "xlsx", Header(NarrowColumns, 0), <<<<1, 1>>>>),
     Sheet("data.csv", "garbage", <<>>, <<>>)}

Files == FullSheets \cup NarrowSheets \cup WeekSheets \cup LongSheets \cup BadSheets

----------------------------------------------------------------------------
\* One run of main()

Blank ==
    /\ uploaded_file = NoFile
    /\ df = NoneDf
    /\ error = ""
    /\ week_options = <<>> /\ week_selected = None
    /\ account_options = <<>> /\ account_selected = None
    /\ client_options = <<>> /\ client_selected = None
    /\ project_options = <<>> /\ project_selected = None
    /\ submit = FALSE
    /\ filtered_data = NoneDf
    /\ output = <<>>
    /\ default_filters = <<>>

FnIdle ==
    /\ fn_df = NoneDf
    /\ fn_default = <<>>
    /\ fn_call = [op |-> "", column_name |-> "", filters |-> <<>>, selected |-> <<>>]
    /\ fn_ret = [err |-> FALSE, values |-> <<>>, filters |-> <<>>, df |-> NoneDf, html |-> <<>>]

Init == pc = "file_uploader" /\ Blank /\ FnIdle

\* st.file_uploader, line 66
FileUploader ==
    /\ pc = "file_uploader"
    /\ uploaded_file' \in Files \cup {NoFile}
    /\ pc' = "load_data"
    /\ UNCHANGED <<df, error, week_options, week_selected, account_options,
                   account_selected, client_options, client_selected, project_options,
                   project_selected, submit, filtered_data, output, default_filters>>
    /\ UNCHANGED fnVars

\* line 67, and the test of line 69
Load ==
    /\ pc = "load_data"
    /\ LET r == LoadData(uploaded_file)
       IN  /\ df' = r.df
           /\ error' = r.error
           /\ pc' = IF r.df.some THEN "week" ELSE "done"
    /\ UNCHANGED <<uploaded_file, week_options, week_selected, account_options,
                   account_selected, client_options, client_selected, project_options,
                   project_selected, submit, filtered_data, output, default_filters>>
    /\ UNCHANGED fnVars

Choices(options) == {None} \cup Range(options)

\* line 75: the call leaves filters to its default
SelectWeek ==
    /\ pc = "week"
    /\ LET r == GetFilteredValues(df, "Week", default_filters)
       IN  /\ week_options' = r.ret
           /\ default_filters' = r.filters
           /\ df' = r.df
           /\ week_selected' \in Choices(r.ret)
           /\ pc' = IF r.err THEN "raised" ELSE "account"
    /\ UNCHANGED <<uploaded_file, error, account_options, account_selected,
                   client_options, client_selected, project_options, project_selected,
                   submit, filtered_data, output>>
    /\ UNCHANGED fnVars

\* lines 78-79
SelectAccount ==
    /\ pc = "account"
    /\ LET r == GetFilteredValues(df, "Account Name",
                    <<[col |-> "Week", val |-> week_selected]>>)
       IN  /\ account_options' = r.ret
           /\ df' = r.df
           /\ account_selected' \in Choices(r.ret)
           /\ pc' = IF r.err THEN "raised" ELSE "client"
    /\ UNCHANGED <<uploaded_file, error, week_options, week_selected,
                   client_options, client_selected, project_options, project_selected,
                   submit, filtered_data, output, default_filters>>
    /\ UNCHANGED fnVars

\* lines 82-83
SelectClient ==
    /\ pc = "client"
    /\ LET r == GetFilteredValues(df, "Client Name",
                    <<[col |-> "Week", val |-> week_selected],
                      [col |-> "Account Name", val |-> account_selected]>>)
       IN  /\ client_options' = r.ret
           /\ df' = r.df
           /\ client_selected' \in Choices(r.ret)
           /\ pc' = IF r.err THEN "raised" ELSE "project"
    /\ UNCHANGED <<uploaded_file, error, week_options, week_selected,
                   account_options, account_selected, project_options, project_selected,
                   submit, filtered_data, output, default_filters>>
    /\ UNCHANGED fnVars

\* lines 86-87
SelectProject ==
    /\ pc = "project"
    /\ LET r == GetFilteredValues(df, "Project Name",
                    <<[col |-> "Week", val |-> week_selected],
                      [col |-> "Account Name", val |-> account_selected],
                      [col |-> "Client Name", val |-> client_selected]>>)
       IN  /\ project_options' = r.ret
           /\ df' = r.df
           /\ project_selected' \in Choices(r.ret)
           /\ pc' = IF r.err THEN "raised" ELSE "button"
    /\ UNCHANGED <<uploaded_file, error, week_options, week_selected,
                   account_options, account_selected, client_options, client_selected,
                   submit, filtered_data, output, default_filters>>
    /\ UNCHANGED fnVars

NoDataForSelection ==
    <<[tag |-> "text", bg |-> "", text |-> "No data available for the selected options."]>>

\* lines 89-110 with the button pressed
Submit ==
    /\ pc = "button"
    /\ submit' = TRUE
    /\ LET r == RowFilter(df, week_selected, account_selected, client_selected,
                          project_selected)
       IN  /\ filtered_data' = r.df
           /\ output' = IF r.err THEN <<>>
                        ELSE IF ~Empty(r.df) THEN GenerateStyledTableHtml(r.df)
                        ELSE NoDataForSelection
           /\ pc' = IF r.err THEN "raised" ELSE "done"
    /\ UNCHANGED <<uploaded_file, df, error, week_options, week_selected,
                   account_options, account_selected, client_options, client_selected,
                   project_options, project_selected, default_filters>>
    /\ UNCHANGED fnVars

\* line 89 with the button not pressed
NoSubmit ==
    /\ pc = "button"
    /\ submit' = FALSE
    /\ pc' = "done"
    /\ UNCHANGED <<uploaded_file, df, error, week_options, week_selected,
                   account_options, account_selected, client_options, client_selected,
                   project_options, project_selected, filtered_data, output,
                   default_filters>>
    /\ UNCHANGED fnVars

\* the host runs the script again from the top
Rerun ==
    /\ pc = "done"
    /\ pc' = "file_uploader"
    /\ uploaded_file' = NoFile
    /\ df' = NoneDf
    /\ error' = ""
    /\ week_options' = <<>> /\ week_selected' = None
    /\ account_options' = <<>> /\ account_selected' = None
    /\ client_options' = <<>> /\ client_selected' = None
    /\ project_options' = <<>> /\ project_selected' = None
    /\ submit' = FALSE
    /\ filtered_data' = NoneDf
    /\ output' = <<>>
    /\ default_filters' = <<>>
    /\ UNCHANGED fnVars

Next ==
    \/ FileUploader
    \/ Load
    \/ SelectWeek
    \/ SelectAccount
    \/ SelectClient
    \/ SelectProject
    \/ Submit
    \/ NoSubmit
    \/ Rerun

Spec == Init /\ [][Next]_vars

----------------------------------------------------------------------------
\* The functions called directly, on any table and any arguments

FnFiles ==
    NarrowSheets
    \cup {f \in FullSheets : Len(f.cells) < MaxRows}
    \cup WeekSheets
    \cup LongSheets

FnTables == {LoadData(f).df : f \in FnFiles}

FnColumnNames == {"Week", "Account Name", "Project Status"}

FnValues == {None, 0, 1}

\* constraint mappings over Week and Account Name
FnFilters ==
    {<<>>}
    \cup {<<[col |-> "Week", val |-> w]>> : w \in FnValues}
    \cup {<<[col |-> "Account Name", val |-> a]>> : a \in FnValues}
    \cup {<<[col |-> "Week", val |-> w], [col |-> "Account Name", val |-> a]>> :
            w \in FnValues, a \in FnValues}

\* selections <<week, account, client, project>>
FnSelections == {<<w, a, c, None>> : w \in FnValues, a \in {None, 1}, c \in {None, 1}}

FnInit ==
    /\ pc = "file_uploader" /\ Blank
    /\ fn_df \in FnTables
    /\ fn_default = <<>>
    /\ fn_call = [op |-> "", column_name |-> "", filters |-> <<>>, selected |-> <<>>]
    /\ fn_ret = [err |-> FALSE, values |-> <<>>, filters |-> <<>>, df |-> NoneDf, html |-> <<>>]

\* get_filtered_values(df, column_name, filters)
CallGetFilteredValues ==
    /\ fn_call.op = ""
    /\ \E column_name \in FnColumnNames, filters \in FnFilters :
          LET r == GetFilteredValues(fn_df, column_name, filters)
          IN  /\ fn_call' = [op |-> "get_filtered_values", column_name |-> column_name,
                             filters |-> filters, selected |-> <<>>]
              /\ fn_ret' = [err |-> r.err, values |-> r.ret, filters |-> r.filters,
                            df |-> NoneDf, html |-> <<>>]
              /\ fn_df' = r.df
    /\ UNCHANGED fn_default
    /\ UNCHANGED mainVars

\* get_filtered_values(df, column_name): filters is the default of the def
CallGetFilteredValuesDefault ==
    /\ fn_call.op = ""
    /\ \E column_name \in FnColumnNames :
          LET r == GetFilteredValues(fn_df, column_name, fn_default)
          IN  /\ fn_call' = [op |-> "get_filtered_values_default",
                             column_name |-> column_name,
                             filters |-> fn_default, selected |-> <<>>]
              /\ fn_ret' = [err |-> r.err, values |-> r.ret, filters |-> r.filters,
                            df |-> NoneDf, html |-> <<>>]
              /\ fn_df' = r.df
              /\ fn_default' = r.filters
    /\ UNCHANGED mainVars

\* the row filter, lines 95-103
CallRowFilter ==
    /\ fn_call.op = ""
    /\ \E selected \in FnSelections :
          LET r == RowFilter(fn_df, selected[1], selected[2], selected[3], selected[4])
          IN  /\ fn_call' = [op |-> "row_filter", column_name |-> "",
                             filters |-> <<>>, selected |-> selected]
              /\ fn_ret' = [err |-> r.err, values |-> <<>>, filters |-> <<>>,
                            df |-> r.df, html |-> <<>>]
    /\ UNCHANGED <<fn_df, fn_default>>
    /\ UNCHANGED mainVars

\* generate_styled_table_html on a filtered table
CallGenerateStyledTableHtml ==
    /\ fn_call.op = ""
    /\ \E selected \in FnSelections :
          LET r == RowFilter(fn_df, selected[1], selected[2], selected[3], selected[4])
          IN  /\ ~r.err
              /\ fn_call' = [op |-> "generate_styled_table_html", column_name |-> "",
                             filters |-> <<>>, selected |-> selected]
              /\ fn_ret' = [err |-> FALSE, values |-> <<>>, filters |-> <<>>,
                            df |-> r.df, html |-> GenerateStyledTableHtml(r.df)]
    /\ UNCHANGED <<fn_df, fn_default>>
    /\ UNCHANGED mainVars

\* the caller drops the returned value; the table and the default mapping stay
Return ==
    /\ fn_call.op # ""
    /\ fn_call' = [op |-> "", column_name |-> "", filters |-> <<>>, selected |-> <<>>]
    /\ fn_ret' = [err |-> FALSE, values |-> <<>>, filters |-> <<>>, df |-> NoneDf, html |-> <<>>]
    /\ UNCHANGED <<fn_df, fn_default>>
    /\ UNCHANGED mainVars

FnNext ==
    \/ CallGetFilteredValues
    \/ CallGetFilteredValuesDefault
    \/ CallRowFilter
    \/ CallGenerateStyledTableHtml
    \/ Return

FnSpec == FnInit /\ [][FnNext]_vars

----------------------------------------------------------------------------
\* Properties

FilterColumns == {"Week", "Account Name", "Client Name", "Project Name"}

Submitted == pc = "done" /\ submit

\* position in d.columns of a column of d
ColumnPosition(d, column_name) == CHOOSE j \in 1..Len(d.columns) : d.columns[j] = column_name

\* the element of the markup of table d that is the cell of the data row at
\* position p (from 0) in column j
CellAt(html, d, p, j) == html[(Len(d.columns) + 2) * (p + 1) + 2 + j]

\* the rows of d, by position, whose cell equals the value in every column
\* of d for which the items hold a value other than None
RowsMatching(d, items) ==
    {i \in 1..Len(d.data) :
        \A k \in 1..Len(items) :
            (items[k].col \in Range(d.columns) /\ items[k].val # None)
                => CellEq(d.data[i][items[k].col], items[k].val)}

Selections ==
    <<[col |-> "Week", val |-> week_selected],
      [col |-> "Account Name", val |-> account_selected],
      [col |-> "Client Name", val |-> client_selected],
      [col |-> "Project Name", val |-> project_selected]>>

\* C1: in the rendered table the Project Status cell of the data row at
\* position p of the filtered table has background PALETTE[p mod 5].
C1_ColourByPosition ==
    (Submitted /\ ~Empty(filtered_data) /\ "Project Status" \in Range(filtered_data.columns))
        => \A p \in 0..(Len(filtered_data.data) - 1) :
              CellAt(output, filtered_data, p,
                     ColumnPosition(filtered_data, "Project Status")).bg
                 = status_colors[(p % 5) + 1]

\* C2: on SUBMIT the rows kept are exactly the rows of the table, in their
\* order, whose cell equals the selected value in every column with a
\* selected value (anything but None, the number 0 included).
C2_RowsKept ==
    (Submitted /\ FilterColumns \subseteq Range(df.columns))
        => LET keep == RowsMatching(df, Selections)
           IN  /\ filtered_data.index = Take(df.index, keep, 1)
               /\ filtered_data.data = Take(df.data, keep, 1)

\* C3: for a target column of the table, get_filtered_values returns exactly
\* the distinct non-missing values of the column in the rows that equal the
\* selected value in every constrained column of the table.
C3_ValuesOfMatchingRows ==
    (fn_call.op = "get_filtered_values" /\ fn_call.column_name \in Range(fn_df.columns))
        => Range(fn_ret.values)
             = {fn_df.data[i][fn_call.column_name] :
                    i \in RowsMatching(fn_df, fn_call.filters)} \ {NaN}

\* C4: the list get_filtered_values returns holds no missing value and is
\* strictly ascending (so it holds no value twice).
C4_StrictlyAscendingNoMissing ==
    fn_call.op \in {"get_filtered_values", "get_filtered_values_default"}
        => /\ \A i \in 1..Len(fn_ret.values) : fn_ret.values[i] # NaN
           /\ \A i \in 1..(Len(fn_ret.values) - 1) : fn_ret.values[i] < fn_ret.values[i + 1]

\* a call whose filtered column holds a value twice and a missing cell
C4_Witness ==
    /\ fn_call.op = "get_filtered_values"
    /\ fn_call.filters = <<>>
    /\ fn_call.column_name \in Range(fn_df.columns)
    /\ \E i, j \in 1..Len(fn_df.data) :
          /\ i < j
          /\ fn_df.data[i][fn_call.column_name] = NaN
          /\ fn_df.data[j][fn_call.column_name] # NaN
    /\ \E i, j \in 1..Len(fn_df.data) :
          /\ i < j
          /\ fn_df.data[i][fn_call.column_name] = fn_df.data[j][fn_call.column_name]
          /\ fn_df.data[i][fn_call.column_name] # NaN
    /\ Len(fn_ret.values) = 2

PresentOnly(d, filters) == SelectSeq(filters, LAMBDA item : item.col \in Range(d.columns))

\* C6: get_filtered_values does not fail; for a target column that is not in
\* the table it returns the empty list; constraints on columns that are not
\* in the table do not change what it returns.
C6_AbsentColumns ==
    fn_call.op = "get_filtered_values"
        => /\ ~fn_ret.err
           /\ fn_call.column_name \notin Range(fn_df.columns) => fn_ret.values = <<>>
           /\ fn_ret.values
                = GetFilteredValues(fn_df, fn_call.column_name,
                                    PresentOnly(fn_df, fn_call.filters)).ret

\* a call with a value for a column that is not in the table, on a target
\* column that has values
C6_Witness ==
    /\ fn_call.op = "get_filtered_values"
    /\ fn_call.column_name \in Range(fn_df.columns)
    /\ \E k \in 1..Len(fn_call.filters) :
          /\ fn_call.filters[k].col \notin Range(fn_df.columns)
          /\ fn_call.filters[k].val = 1
    /\ Len(fn_ret.values) >= 2

\* C7: the markup is the no-data message exactly for a table with no rows;
\* otherwise it is a table of one header row with a cell per column and a
\* data row per table row with a cell per column.
C7_MarkupShape ==
    fn_call.op = "generate_styled_table_html"
        => LET d == fn_ret.df
               html == fn_ret.html
               n == Len(d.columns)
               row(p) == (n + 2) * (p + 1) + 1
           IN  /\ (html = NoDataMessage) <=> (Len(d.data) = 0)
               /\ Len(d.data) > 0 =>
                    /\ Len(html) = 2 + (n + 2) * (Len(d.data) + 1)
                    /\ html[1].tag = "table" /\ html[Len(html)].tag = "/table"
                    /\ html[2].tag = "tr" /\ html[n + 3].tag = "/tr"
                    /\ \A j \in 1..n : html[2 + j].tag = "th" /\ html[2 + j].text = d.columns[j]
                    /\ \A p \in 0..(Len(d.data) - 1) :
                          /\ html[row(p) + 1].tag = "tr"
                          /\ \A j \in 1..n : CellAt(html, d, p, j).tag = "td"
                          /\ html[row(p) + n + 2].tag = "/tr"

\* a table of several rows, some filtered out, is rendered
C7_Witness ==
    /\ fn_call.op = "generate_styled_table_html"
    /\ Len(fn_ret.df.data) >= 2
    /\ Len(fn_ret.df.data) < Len(fn_df.data)
    /\ fn_ret.html # NoDataMessage

\* C8: a failed parse gives no table and an error message, no file gives no
\* table and no error, and without a table the run ends with no options
\* computed, nothing filtered and nothing rendered.
C8_NoTableNoPipeline ==
    pc \notin {"file_uploader", "load_data"}
        => /\ ~uploaded_file.some => (df = NoneDf /\ error = "")
           /\ (uploaded_file.some /\ ParseRaises(uploaded_file))
                 => (df = NoneDf /\ error # "")
           /\ df = NoneDf =>
                 /\ pc = "done"
                 /\ week_options = <<>> /\ account_options = <<>>
                 /\ client_options = <<>> /\ project_options = <<>>
                 /\ week_selected = None /\ account_selected = None
                 /\ client_selected = None /\ project_selected = None
                 /\ ~submit
                 /\ filtered_data = NoneDf
                 /\ output = <<>>

\* the run ended on a file that does not parse
C8_Witness ==
    /\ pc = "done"
    /\ uploaded_file.some
    /\ ParseRaises(uploaded_file)
    /\ Len(uploaded_file.cells) > 0
    /\ error # ""

\* C9: no call changes the table or the mapping it is given, the default
\* mapping stays empty, and a call that leaves filters out returns what the
\* call with an empty mapping returns.
C9_CallsLeaveArguments ==
    [][/\ fn_df' = fn_df
       /\ fn_default' = <<>>
       /\ fn_call'.op \in {"get_filtered_values", "get_filtered_values_default"}
             => fn_ret'.filters = fn_call'.filters
       /\ fn_call'.op = "get_filtered_values_default"
             => fn_ret'.values = GetFilteredValues(fn_df, fn_call'.column_name, <<>>).ret]_vars

\* a call with the default mapping on a table with values
C9_Witness ==
    /\ fn_call.op = "get_filtered_values_default"
    /\ Len(fn_ret.values) >= 2

\* C10: on a table with a row and the four filter columns, SUBMIT after any
\* run of the cascade keeps a row and renders the table.
C10_CascadeKeepsARow ==
    (Submitted /\ Len(df.data) >= 1 /\ FilterColumns \subseteq Range(df.columns))
        => /\ Len(filtered_data.data) >= 1
           /\ output # NoDataForSelection
           /\ output[1].tag = "table"

\* every dropdown has a selection and the filter drops a row
C10_Witness ==
    /\ Submitted
    /\ FilterColumns \subseteq Range(df.columns)
    /\ week_selected = 1 /\ account_selected = 1
    /\ client_selected # None /\ project_selected # None
    /\ Len(filtered_data.data) >= 1
    /\ Len(filtered_data.data) < Len(df.data)

====
